---- MODULE Spec2Model ----
(***************************************************************************)
(* Model of the group-channel message synchronizer                         *)
(* (useGroupChannelMessagesWithCollection) and of the message store it     *)
(* drives.  The hook is translated from its source; the store it imports   *)
(* from ./reducer is modelled from its specification (section 4.3).  The   *)
(* chat SDK is a black box: what it delivers (snapshots, pages, realtime   *)
(* events, acknowledgments) is drawn nondeterministically from small sets. *)
(*                                                                         *)
(* Tasks run to completion: an action is one task (a callback of the SDK,  *)
(* a call of a handle, an effect) together with the render that follows    *)
(* it; the continuation behind an `await` of an already settled promise is *)
(* the next action taken (pc).                                             *)
(*                                                                         *)
(* The second part models the MentionManager of the message input: its     *)
(* range helpers, the search for the mention being typed, the shift and    *)
(* the removal of mentions under an edit, and the message template.  Its   *)
(* methods are pure; SpecMention draws a text and its mentions and calls   *)
(* them, keeping the arguments and the returned value in `result`.         *)
(***************************************************************************)
EXTENDS Integers, Sequences, FiniteSets, TLC

\* ---------------------------------------------------------------- bounds
\* messages of other members on the channel timeline (ids 1..NumOther)
NumOther == 2
\* collections one session may create (ids 1..MaxColl)
MaxColl == 2
\* messages the viewer sends (request ids 1..MaxSend)
MaxSend == 1
\* edits of message 1 (its version runs over 0..MaxVer)
MaxVer == 0
\* channel-updated events delivered (each carries a fresh channel object)
MaxChannel == 2
\* page fetches (loadPrevious, loadNext) suspended at the same time
MaxFetch == 1
\* length of the text typed into the mention input
MaxText == 4
\* users that can be mentioned (ids 1..NumUsers)
NumUsers == 2
\* mentions held at the start of an input session
MaxMentions == 2
\* size of the offset passed to reconcileRangeInMentionedUsers
MaxOffset == 2
\* characters one edit inserts
MaxInsert == 1

VARIABLES
  mounted,        \* the component using the hook is mounted
  userId,         \* the userId prop: TRUE when a viewer is signed in
  activeChannel,  \* useState: the channel object held (a fresh number per object)
  effectDeps,     \* dependencies [init, userId] the async effect last ran with
  pc,             \* "idle", or the continuation that is due next (microtask)
  collectionRef,  \* collectionRef.current: 0 (undefined) or a collection id
  created,        \* number of collections created so far
  disposed,       \* ids of the collections dispose() was called on
  phase,          \* per collection: the initialize() callback still to come
  channelOf,      \* per collection: the channel object it was created for
  messages,       \* reducer state `messages` (the spec's `current`)
  nextMessages,   \* reducer state `nextMessages` (the spec's `pendingNext`)
  nextClosure,    \* the nextMessages captured by the memoized `next` handle
  loading,        \* reducer state `loading`
  refreshing,     \* reducer state `refreshing`
  prevOp,         \* collection whose loadPrevious() is awaited, or 0
  nextOp,         \* the suspended next(): <<>> or <<[coll, list]>>
  sdk,            \* SDK side of each send: status and server timestamp
  onSent,         \* what each send's completion callback was called with
  published,      \* the event last published on the internal pub/sub
  text,           \* mention input: the text buffer, a sequence of characters
  mentionedUsers, \* mention input: the mentions, a sequence of [user, range]
  editing,        \* mention input: <<>> or the edit whose shift is still due
  result          \* what the MentionManager function last called has returned

vars == <<mounted, userId, activeChannel, effectDeps, pc, collectionRef, created,
          disposed, phase, channelOf, messages, nextMessages, nextClosure, loading,
          refreshing, prevOp, nextOp, sdk, onSent, published,
          text, mentionedUsers, editing, result>>

\* the hook's own state apart from the store, and the SDK's
hookVars == <<mounted, userId, activeChannel, effectDeps, pc, loading, refreshing, published>>
collVars == <<collectionRef, created, disposed, phase, channelOf>>
storeVars == <<messages, nextMessages, nextClosure>>
opVars == <<prevOp, nextOp>>
sendVars == <<sdk, onSent>>
\* the state of the mention input, which the hook never touches
mentionVars == <<text, mentionedUsers, editing, result>>

Colls == 1..MaxColl

\* page fetches in flight
Fetching == (IF prevOp # 0 THEN 1 ELSE 0) + Len(nextOp)
ReqIds == 1..MaxSend

\* ------------------------------------------------------- messages (SDK)
\* creation time of the other members' messages: m1 @1, m2 and m3 @3, later ones @5
OtherCreatedAt(id) == IF id = 1 THEN 1 ELSE IF id <= 3 THEN 3 ELSE 5

\* a confirmed message of another member; only message 1 is ever edited
OtherMessage(id, v) ==
  [messageId |-> id, reqId |-> 0, createdAt |-> OtherCreatedAt(id),
   sendingStatus |-> "succeeded", ver |-> v]

\* the client stamps the viewer's unsent message with its own clock
ClientCreatedAt(r) == 2 * r

\* the server stamps the acknowledged message: same instant, or later
AckTimes(r) == {ClientCreatedAt(r), ClientCreatedAt(r) + 2}

\* the server may also stamp it with the instant of another member's message
TiedAckTimes(r) == AckTimes(r) \cup {OtherCreatedAt(NumOther)}

PendingMessage(r) ==
  [messageId |-> 0, reqId |-> r, createdAt |-> ClientCreatedAt(r),
   sendingStatus |-> "pending", ver |-> 0]

FailedMessage(r) ==
  [messageId |-> 0, reqId |-> r, createdAt |-> ClientCreatedAt(r),
   sendingStatus |-> "failed", ver |-> 0]

SentMessage(r, t) ==
  [messageId |-> NumOther + r, reqId |-> r, createdAt |-> t,
   sendingStatus |-> "succeeded", ver |-> 0]

Versions(id) == IF id = 1 THEN 0..MaxVer ELSE {0}

\* every confirmed message the server can ever deliver
OthersKnown == UNION {{OtherMessage(id, v) : v \in Versions(id)} : id \in 1..NumOther}

AllConfirmed == OthersKnown \cup UNION {{SentMessage(r, t) : t \in AckTimes(r)} : r \in ReqIds}

\* the viewer's message is known to the server once it is acknowledged
Known(m) ==
  m.reqId = 0 \/ (sdk[m.reqId].status = "succeeded" /\ sdk[m.reqId].createdAt = m.createdAt)

\* the confirmed messages the server can deliver in the current state
ServerKnown == {m \in AllConfirmed : Known(m)}

\* collection.pendingMessages / collection.failedMessages, in request order
RECURSIVE UnsentFrom(_, _)
UnsentFrom(r, status) ==
  IF r > MaxSend THEN <<>>
  ELSE (IF sdk[r].status \in status
          THEN <<IF sdk[r].status = "failed" THEN FailedMessage(r) ELSE PendingMessage(r)>>
          ELSE <<>>) \o UnsentFrom(r + 1, status)

pendingMessages == UnsentFrom(1, {"pending", "resending"})
failedMessages == UnsentFrom(1, {"failed"})

\* a list the SDK hands over: distinct confirmed messages in timeline (id) order
RECURSIVE ListOf(_)
ListOf(S) ==
  IF S = {} THEN <<>>
  ELSE LET m == CHOOSE x \in S : \A y \in S : x.messageId <= y.messageId
       IN  <<m>> \o ListOf(S \ {m})

DistinctIds(S) == \A x, y \in S : x.messageId = y.messageId => x = y

\* snapshots and pages
AllPages == {ListOf(S) : S \in {T \in SUBSET AllConfirmed : DistinctIds(T)}}

Pages == {p \in AllPages : \A i \in DOMAIN p : Known(p[i])}

\* the messages of one realtime event, in the order the transport gives them
Events == {<<m>> : m \in ServerKnown}

\* ------------------------------------------------ message store (reducer)
\* the entry a message updates: same confirmed id, or same pending id
SameMessage(e, m) ==
  \/ m.messageId # 0 /\ e.messageId = m.messageId
  \/ m.reqId # 0 /\ e.reqId = m.reqId

Upsert(list, m) ==
  IF \E i \in DOMAIN list : SameMessage(list[i], m)
    THEN [i \in DOMAIN list |-> IF SameMessage(list[i], m) THEN m ELSE list[i]]
    ELSE Append(list, m)

RECURSIVE UpsertAll(_, _)
UpsertAll(list, ms) ==
  IF ms = <<>> THEN list ELSE UpsertAll(Upsert(list, Head(ms)), Tail(ms))

\* the default comparator: creation time ascending
sortComparator(a, b) == a.createdAt - b.createdAt

\* stable insertion of m into a sorted list: behind every entry not after it
RECURSIVE InsertSorted(_, _)
InsertSorted(list, m) ==
  IF list = <<>> THEN <<m>>
  ELSE IF sortComparator(Head(list), m) <= 0
         THEN <<Head(list)>> \o InsertSorted(Tail(list), m)
         ELSE <<m>> \o list

RECURSIVE SortMessages(_)
SortMessages(list) ==
  IF list = <<>> THEN <<>>
  ELSE InsertSorted(SortMessages(SubSeq(list, 1, Len(list) - 1)), list[Len(list)])

\* setCurrent(messages, replace)
updateMessages(list, ms, clearPrev) ==
  SortMessages(IF clearPrev THEN ms ELSE UpsertAll(list, ms))

\* setNext(messages, replace): the same semantics on the other partition
updateNextMessages(list, ms, clearPrev) ==
  SortMessages(IF clearPrev THEN ms ELSE UpsertAll(list, ms))

Named(e, msgIds, reqIds) ==
  \/ e.messageId # 0 /\ e.messageId \in msgIds
  \/ e.reqId # 0 /\ e.reqId \in reqIds

\* removeByIdentity on `messages`
deleteMessages(list, msgIds, reqIds) ==
  SelectSeq(list, LAMBDA e : ~Named(e, msgIds, reqIds))

\* removeByIdentity on `nextMessages`
deleteNextMessages(list, msgIds, reqIds) ==
  SelectSeq(list, LAMBDA e : ~Named(e, msgIds, reqIds))

\* ------------------------------------------------------------ the hook
\* useCallback(..., [nextMessages.length]): a render replaces the `next` handle,
\* and with it the nextMessages it sees, only when the length has changed
Rendered(newNext) ==
  IF Len(newNext) # Len(nextClosure) THEN newNext ELSE nextClosure

\* mutant: the failed messages are not added back after the replacement
SnapshotResult_NoFailed(snapshot) ==
  updateMessages(updateMessages(messages, snapshot, TRUE), pendingMessages, FALSE)

\* onCacheResult / onApiResult without error: replace, then add the unsent ones
SnapshotResult(snapshot) ==
  updateMessages(
    updateMessages(updateMessages(messages, snapshot, TRUE), pendingMessages, FALSE),
    failedMessages, FALSE)

Range(list) == {list[i] : i \in DOMAIN list}

msgIdsOf(ms) == {m.messageId : m \in Range(ms)}
reqIdsOf(ms) == {m.reqId : m \in {x \in Range(ms) : x.reqId # 0}}

TypeOK ==
  /\ mounted \in BOOLEAN /\ userId \in BOOLEAN
  /\ activeChannel \in 0..MaxChannel
  /\ pc \in {"idle", "effect", "refresh"}
  /\ collectionRef \in 0..MaxColl /\ created \in 0..MaxColl
  /\ disposed \subseteq Colls
  /\ phase \in [Colls -> {"none", "cache", "api", "done"}]
  /\ channelOf \in [Colls -> 0..MaxChannel]
  /\ loading \in BOOLEAN /\ refreshing \in BOOLEAN
  /\ prevOp \in 0..MaxColl
  /\ Len(nextOp) <= 1

\* the hook after construction, before its first effect
HookInit ==
  /\ mounted = TRUE
  /\ userId \in BOOLEAN
  /\ activeChannel = 0
  /\ effectDeps = <<>>
  /\ pc = "idle"
  /\ collectionRef = 0
  /\ created = 0
  /\ disposed = {}
  /\ phase = [c \in Colls |-> "none"]
  /\ channelOf = [c \in Colls |-> 0]
  /\ messages = <<>>
  /\ nextMessages = <<>>
  /\ nextClosure = <<>>
  /\ loading = FALSE
  /\ refreshing = FALSE
  /\ prevOp = 0
  /\ nextOp = <<>>
  /\ sdk = [r \in ReqIds |-> [status |-> "none", createdAt |-> 0]]
  /\ onSent = [r \in ReqIds |-> "none"]
  /\ published = <<>>

\* a mention input nobody has typed into
MentionIdle ==
  /\ text = <<>>
  /\ mentionedUsers = <<>>
  /\ editing = <<>>
  /\ result = [op |-> "none"]

Init == HookInit /\ MentionIdle

\* mutant: the held collection is not disposed before the new one is created
init_NoDispose(uid, channel) ==
  /\ disposed' = disposed
  /\ IF uid
       THEN /\ created < MaxColl
            /\ created' = created + 1
            /\ collectionRef' = created + 1
            /\ phase' = [phase EXCEPT ![created + 1] = "cache"]
            /\ channelOf' = [channelOf EXCEPT ![created + 1] = channel]
            /\ nextMessages' = updateNextMessages(nextMessages, <<>>, TRUE)
            /\ nextClosure' = Rendered(<<>>)
       ELSE UNCHANGED <<created, collectionRef, phase, channelOf, nextMessages, nextClosure>>

\* init(uid) of the render that saw `channel` as activeChannel: dispose the
\* held collection, then (with a uid) create and initialize a new one for that
\* channel, clear nextMessages and register the handlers
init(uid, channel) ==
  /\ disposed' = IF collectionRef # 0 THEN disposed \cup {collectionRef} ELSE disposed
  /\ IF uid
       THEN /\ created < MaxColl
            /\ created' = created + 1
            /\ collectionRef' = created + 1
            /\ phase' = [phase EXCEPT ![created + 1] = "cache"]
            /\ channelOf' = [channelOf EXCEPT ![created + 1] = channel]
            /\ nextMessages' = updateNextMessages(nextMessages, <<>>, TRUE)
            /\ nextClosure' = Rendered(<<>>)
       ELSE UNCHANGED <<created, collectionRef, phase, channelOf, nextMessages, nextClosure>>

\* useAsyncEffect(..., [init, userId]): runs after the first render and after
\* every render in which init (i.e. activeChannel) or userId has changed
RunEffect ==
  /\ mounted /\ pc = "idle"
  /\ effectDeps # <<activeChannel, userId>>
  /\ effectDeps' = <<activeChannel, userId>>
  /\ loading' = TRUE
  /\ init(userId, activeChannel)
  /\ pc' = "effect"
  /\ UNCHANGED <<mounted, userId, activeChannel, refreshing, published, messages>>
  /\ UNCHANGED <<opVars, sendVars>>
  /\ UNCHANGED mentionVars

\* the continuation behind `await init(userId)` in the effect
ResumeEffect ==
  /\ pc = "effect"
  /\ loading' = FALSE
  /\ pc' = "idle"
  /\ UNCHANGED <<mounted, userId, activeChannel, effectDeps, refreshing, published>>
  /\ UNCHANGED <<collVars, storeVars, opVars, sendVars>>
  /\ UNCHANGED mentionVars

\* the userId prop changes (sign-in, sign-out)
SetUserId ==
  /\ mounted /\ pc = "idle"
  /\ userId' = ~userId
  /\ UNCHANGED <<mounted, activeChannel, effectDeps, pc, loading, refreshing, published>>
  /\ UNCHANGED <<collVars, storeVars, opVars, sendVars>>
  /\ UNCHANGED mentionVars

\* the cleanup of useEffect(..., [])
Unmount ==
  /\ mounted /\ pc = "idle"
  /\ mounted' = FALSE
  /\ disposed' = IF collectionRef # 0 THEN disposed \cup {collectionRef} ELSE disposed
  /\ UNCHANGED <<userId, activeChannel, effectDeps, pc, loading, refreshing, published>>
  /\ UNCHANGED <<collectionRef, created, phase, channelOf>>
  /\ UNCHANGED <<storeVars, opVars, sendVars>>
  /\ UNCHANGED mentionVars

\* mutant: refresh() raises the loading flag as well
Refresh_SetsLoading ==
  /\ mounted /\ pc = "idle"
  /\ refreshing' = TRUE
  /\ loading' = TRUE
  /\ init(userId, activeChannel)
  /\ pc' = "refresh"
  /\ UNCHANGED <<mounted, userId, activeChannel, effectDeps, published, messages>>
  /\ UNCHANGED <<opVars, sendVars>>
  /\ UNCHANGED mentionVars

\* refresh()
Refresh ==
  /\ mounted /\ pc = "idle"
  /\ refreshing' = TRUE
  /\ init(userId, activeChannel)
  /\ pc' = "refresh"
  /\ UNCHANGED <<mounted, userId, activeChannel, effectDeps, loading, published, messages>>
  /\ UNCHANGED <<opVars, sendVars>>
  /\ UNCHANGED mentionVars

\* the continuation behind `await init(userId)` in refresh
ResumeRefresh ==
  /\ pc = "refresh"
  /\ refreshing' = FALSE
  /\ pc' = "idle"
  /\ UNCHANGED <<mounted, userId, activeChannel, effectDeps, loading, published>>
  /\ UNCHANGED <<collVars, storeVars, opVars, sendVars>>
  /\ UNCHANGED mentionVars

\* ------------------------------------------------ initialize() callbacks
\* a collection's callbacks stay in flight when it is disposed
onCacheResult(c, err, snapshot) ==
  /\ pc = "idle"
  /\ phase[c] = "cache"
  /\ phase' = [phase EXCEPT ![c] = "api"]
  /\ messages' = IF err THEN messages ELSE SnapshotResult(snapshot)
  /\ UNCHANGED <<collectionRef, created, disposed, channelOf, nextMessages, nextClosure>>
  /\ UNCHANGED <<hookVars, opVars, sendVars>>
  /\ UNCHANGED mentionVars

onApiResult(c, err, snapshot) ==
  /\ pc = "idle"
  /\ phase[c] = "api"
  /\ phase' = [phase EXCEPT ![c] = "done"]
  /\ messages' = IF err THEN messages ELSE SnapshotResult(snapshot)
  /\ UNCHANGED <<collectionRef, created, disposed, channelOf, nextMessages, nextClosure>>
  /\ UNCHANGED <<hookVars, opVars, sendVars>>
  /\ UNCHANGED mentionVars

\* ------------------------------------------- setMessageCollectionHandler
\* dispose() stops the delivery of events: only the live collection has any
Live(c) == c # 0 /\ c = collectionRef /\ c \notin disposed

\* mutant: the added messages are merged into `messages`
onMessagesAdded_IntoCurrent(ms) ==
  /\ pc = "idle" /\ Live(collectionRef)
  /\ messages' = updateMessages(messages, ms, FALSE)
  /\ UNCHANGED <<nextMessages, nextClosure, hookVars, collVars, opVars, sendVars>>
  /\ UNCHANGED mentionVars

onMessagesAdded(ms) ==
  /\ pc = "idle" /\ Live(collectionRef)
  /\ nextMessages' = updateNextMessages(nextMessages, ms, FALSE)
  /\ nextClosure' = Rendered(nextMessages')
  /\ UNCHANGED <<messages, hookVars, collVars, opVars, sendVars>>
  /\ UNCHANGED mentionVars

onMessagesUpdated(ms) ==
  /\ pc = "idle" /\ Live(collectionRef)
  /\ nextMessages' = updateNextMessages(nextMessages, ms, FALSE)
  /\ nextClosure' = Rendered(nextMessages')
  /\ UNCHANGED <<messages, hookVars, collVars, opVars, sendVars>>
  /\ UNCHANGED mentionVars

\* the SDK also reports the removal of a failed message of the viewer
DeleteEvents == Events \cup {<<FailedMessage(r)>> : r \in {q \in ReqIds : sdk[q].status = "failed"}}

\* mutant: the deletion is applied to `messages` only
onMessagesDeleted_CurrentOnly(ms) ==
  /\ pc = "idle" /\ Live(collectionRef)
  /\ LET msgIds == msgIdsOf(ms)
         reqIds == reqIdsOf(ms)
     IN  /\ messages' = deleteMessages(messages, msgIds, reqIds)
         /\ sdk' = [r \in ReqIds |->
                      IF r \in reqIds /\ sdk[r].status = "failed"
                        THEN [sdk[r] EXCEPT !.status = "removed"] ELSE sdk[r]]
  /\ UNCHANGED <<nextMessages, nextClosure, onSent, hookVars, collVars, opVars>>
  /\ UNCHANGED mentionVars

onMessagesDeleted(ms) ==
  /\ pc = "idle" /\ Live(collectionRef)
  /\ LET msgIds == msgIdsOf(ms)
         reqIds == reqIdsOf(ms)
     IN  /\ messages' = deleteMessages(messages, msgIds, reqIds)
         /\ nextMessages' = deleteNextMessages(nextMessages, msgIds, reqIds)
         /\ nextClosure' = Rendered(nextMessages')
         /\ sdk' = [r \in ReqIds |->
                      IF r \in reqIds /\ sdk[r].status = "failed"
                        THEN [sdk[r] EXCEPT !.status = "removed"] ELSE sdk[r]]
  /\ UNCHANGED <<onSent, hookVars, collVars, opVars>>
  /\ UNCHANGED mentionVars

onChannelDeleted ==
  /\ pc = "idle" /\ Live(collectionRef)
  /\ published' = <<"ChannelDeleted">>
  /\ UNCHANGED <<mounted, userId, activeChannel, effectDeps, pc, loading, refreshing>>
  /\ UNCHANGED <<collVars, storeVars, opVars, sendVars>>
  /\ UNCHANGED mentionVars

\* mutant: the held channel object is kept
onChannelUpdated_KeepHeld(isGroupChannel) ==
  /\ pc = "idle" /\ Live(collectionRef)
  /\ activeChannel < MaxChannel
  /\ activeChannel' = activeChannel
  /\ published' = <<"ChannelUpdated", isGroupChannel, activeChannel + 1>>
  /\ UNCHANGED <<mounted, userId, effectDeps, pc, loading, refreshing>>
  /\ UNCHANGED <<collVars, storeVars, opVars, sendVars>>
  /\ UNCHANGED mentionVars

\* every event carries a channel object of its own
onChannelUpdated(isGroupChannel) ==
  /\ pc = "idle" /\ Live(collectionRef)
  /\ activeChannel < MaxChannel
  /\ activeChannel' = IF isGroupChannel THEN activeChannel + 1 ELSE activeChannel
  /\ published' = <<"ChannelUpdated", isGroupChannel, activeChannel + 1>>
  /\ UNCHANGED <<mounted, userId, effectDeps, pc, loading, refreshing>>
  /\ UNCHANGED <<collVars, storeVars, opVars, sendVars>>
  /\ UNCHANGED mentionVars

\* init(uid) of the closure that registered the handler: its uid was present,
\* and its activeChannel is the one the held collection was created for
onHugeGapDetected ==
  /\ pc = "idle" /\ Live(collectionRef)
  /\ init(TRUE, channelOf[collectionRef])
  /\ UNCHANGED <<messages, hookVars, opVars, sendVars>>
  /\ UNCHANGED mentionVars

\* ------------------------------------------------------------ pagination
\* prev(): an absent collection or hasPrevious = false makes it a no-op
prev(hasPrevious) ==
  /\ pc = "idle" /\ prevOp = 0
  /\ collectionRef # 0 /\ hasPrevious
  /\ Fetching < MaxFetch
  /\ prevOp' = collectionRef
  /\ UNCHANGED <<nextOp, hookVars, collVars, storeVars, sendVars>>
  /\ UNCHANGED mentionVars

\* mutant: the fetched page replaces `messages`
prevSettled_ClearPrev(err, list) ==
  /\ pc = "idle" /\ prevOp # 0
  /\ prevOp' = 0
  /\ messages' = IF err THEN messages ELSE updateMessages(messages, list, TRUE)
  /\ UNCHANGED <<nextMessages, nextClosure, nextOp, hookVars, collVars, sendVars>>
  /\ UNCHANGED mentionVars

\* loadPrevious() settles: a rejection is swallowed
prevSettled(err, list) ==
  /\ pc = "idle" /\ prevOp # 0
  /\ prevOp' = 0
  /\ messages' = IF err THEN messages ELSE updateMessages(messages, list, FALSE)
  /\ UNCHANGED <<nextMessages, nextClosure, nextOp, hookVars, collVars, sendVars>>
  /\ UNCHANGED mentionVars

\* the tail of next(): merge what was fetched and what the handle had captured
nextMerge(list) ==
  IF Len(list) > 0
    THEN /\ messages' = updateMessages(messages, list, FALSE)
         /\ nextMessages' = updateNextMessages(nextMessages, <<>>, TRUE)
         /\ nextClosure' = Rendered(nextMessages')
    ELSE UNCHANGED storeVars

\* next(): with a collection that has more, it suspends in loadNext()
next(hasNext) ==
  /\ pc = "idle" /\ nextOp = <<>>
  /\ IF collectionRef # 0 /\ hasNext
       THEN /\ Fetching < MaxFetch
            /\ nextOp' = <<[coll |-> collectionRef, list |-> nextClosure]>>
            /\ UNCHANGED storeVars
       ELSE /\ nextMerge(nextClosure)
            /\ UNCHANGED nextOp
  /\ UNCHANGED <<prevOp, hookVars, collVars, sendVars>>
  /\ UNCHANGED mentionVars

\* loadNext() settles: a rejection is swallowed and the captured list remains
nextSettled(err, fetchedList) ==
  /\ pc = "idle" /\ nextOp # <<>>
  /\ nextOp' = <<>>
  /\ nextMerge((IF err THEN <<>> ELSE fetchedList) \o nextOp[1].list)
  /\ UNCHANGED <<prevOp, hookVars, collVars, sendVars>>
  /\ UNCHANGED mentionVars

\* ------------------------------------------------------- send and resend
\* mutant: the pending message is put at the end of the list as it is
sendUserMessage_AppendRaw(r) ==
  /\ mounted /\ pc = "idle"
  /\ sdk[r].status = "none"
  /\ \A q \in ReqIds : q < r => sdk[q].status # "none"
  /\ sdk' = [sdk EXCEPT ![r] = [status |-> "pending", createdAt |-> 0]]
  /\ messages' = Append(messages, PendingMessage(r))
  /\ UNCHANGED <<onSent, nextMessages, nextClosure, hookVars, collVars, opVars>>
  /\ UNCHANGED mentionVars

\* sendUserMessage / sendFileMessage: the pending message goes into the store
sendUserMessage(r) ==
  /\ mounted /\ pc = "idle"
  /\ sdk[r].status = "none"
  /\ \A q \in ReqIds : q < r => sdk[q].status # "none"
  /\ sdk' = [sdk EXCEPT ![r] = [status |-> "pending", createdAt |-> 0]]
  /\ messages' = updateMessages(messages, <<PendingMessage(r)>>, FALSE)
  /\ UNCHANGED <<onSent, nextMessages, nextClosure, hookVars, collVars, opVars>>
  /\ UNCHANGED mentionVars

\* mutant: the sent message is appended to the list, which is then stored whole
sendCallback_AppendSent(r, error, t) ==
  /\ pc = "idle"
  /\ sdk[r].status = "pending"
  /\ onSent' = [onSent EXCEPT ![r] = IF error THEN "error" ELSE "sent"]
  /\ IF error
       THEN /\ sdk' = [sdk EXCEPT ![r] = [status |-> "failed", createdAt |-> 0]]
            /\ UNCHANGED messages
       ELSE /\ sdk' = [sdk EXCEPT ![r] = [status |-> "succeeded", createdAt |-> t]]
            /\ messages' = updateMessages(messages, Append(messages, SentMessage(r, t)), TRUE)
  /\ UNCHANGED <<nextMessages, nextClosure, hookVars, collVars, opVars>>
  /\ UNCHANGED mentionVars

\* mutant: the sent message is stored with clearPrev = true
sendCallback_ClearPrev(r, error, t) ==
  /\ pc = "idle"
  /\ sdk[r].status = "pending"
  /\ onSent' = [onSent EXCEPT ![r] = IF error THEN "error" ELSE "sent"]
  /\ IF error
       THEN /\ sdk' = [sdk EXCEPT ![r] = [status |-> "failed", createdAt |-> 0]]
            /\ UNCHANGED messages
       ELSE /\ sdk' = [sdk EXCEPT ![r] = [status |-> "succeeded", createdAt |-> t]]
            /\ messages' = updateMessages(messages, <<SentMessage(r, t)>>, TRUE)
  /\ UNCHANGED <<nextMessages, nextClosure, hookVars, collVars, opVars>>
  /\ UNCHANGED mentionVars

\* the SDK's callback of the send: onSent first, then the store on success
sendCallback(r, error, t) ==
  /\ pc = "idle"
  /\ sdk[r].status = "pending"
  /\ onSent' = [onSent EXCEPT ![r] = IF error THEN "error" ELSE "sent"]
  /\ IF error
       THEN /\ sdk' = [sdk EXCEPT ![r] = [status |-> "failed", createdAt |-> 0]]
            /\ UNCHANGED messages
       ELSE /\ sdk' = [sdk EXCEPT ![r] = [status |-> "succeeded", createdAt |-> t]]
            /\ messages' = updateMessages(messages, <<SentMessage(r, t)>>, FALSE)
  /\ UNCHANGED <<nextMessages, nextClosure, hookVars, collVars, opVars>>
  /\ UNCHANGED mentionVars

\* resendMessage(failedMessage): suspends in resendUserMessage / resendFileMessage
resendMessage(r) ==
  /\ mounted /\ pc = "idle"
  /\ sdk[r].status = "failed"
  /\ sdk' = [sdk EXCEPT ![r] = [status |-> "resending", createdAt |-> 0]]
  /\ UNCHANGED <<onSent, hookVars, collVars, storeVars, opVars>>
  /\ UNCHANGED mentionVars

\* the resend settles: a rejection leaves the store alone
resendSettled(r, error, t) ==
  /\ pc = "idle"
  /\ sdk[r].status = "resending"
  /\ IF error
       THEN /\ sdk' = [sdk EXCEPT ![r] = [status |-> "failed", createdAt |-> 0]]
            /\ UNCHANGED messages
       ELSE /\ sdk' = [sdk EXCEPT ![r] = [status |-> "succeeded", createdAt |-> t]]
            /\ messages' = updateMessages(messages, <<SentMessage(r, t)>>, FALSE)
  /\ UNCHANGED <<onSent, nextMessages, nextClosure, hookVars, collVars, opVars>>
  /\ UNCHANGED mentionVars

\* --------------------------------------------------------- MentionManager
\* config.trigger and config.delimiter (one character each), and a letter
trigger == "@"
delimiter == " "
Chars == {trigger, delimiter, "a"}
Users == 1..NumUsers

Min(a, b) == IF a < b THEN a ELSE b
Max(a, b) == IF a > b THEN a ELSE b

\* String.prototype.slice(from, to): 0-based, `to` exclusive, a negative index
\* counts from the end, indexes are clamped to the string
slice(str, from, to) ==
  LET n == Len(str)
      f == IF from < 0 THEN Max(n + from, 0) ELSE Min(from, n)
      t == IF to < 0 THEN Max(n + to, 0) ELSE Min(to, n)
  IN  IF f < t THEN SubSeq(str, f + 1, t) ELSE <<>>

\* String.prototype.indexOf(ch): 0-based, -1 when absent
indexOf(str, ch) ==
  IF \E i \in DOMAIN str : str[i] = ch
    THEN (CHOOSE i \in DOMAIN str : str[i] = ch /\ \A j \in 1..(i - 1) : str[j] # ch) - 1
    ELSE -1

startsWith(str, ch) == Len(str) > 0 /\ str[1] = ch

\* str.split(delimiter).pop(): what follows the last delimiter
lastOfSplit(str) ==
  LET ds == {i \in DOMAIN str : str[i] = delimiter}
  IN  IF ds = {} THEN str
      ELSE SubSeq(str, (CHOOSE i \in ds : \A j \in ds : j <= i) + 1, Len(str))

\* rangeHelpers
inRangeUnderOver(start, num, end) == start < num /\ num < end
inRangeUnderMore(start, num, end) == start < num /\ num <= end
inRangeLessOver(start, num, end) == start <= num /\ num < end
inRangeLessMore(start, num, end) == start <= num /\ num <= end

inRange(compare, start, num, end) ==
  CASE compare = "underOver" -> inRangeUnderOver(start, num, end)
    [] compare = "underMore" -> inRangeUnderMore(start, num, end)
    [] compare = "lessOver" -> inRangeLessOver(start, num, end)
    [] compare = "lessMore" -> inRangeLessMore(start, num, end)

intersection(a, b, compare) ==
  inRange(compare, a.start, b.start, a.end) \/ inRange(compare, a.start, b.end, a.end)

getSearchString(str, selectionIndex) ==
  LET lastSpan == lastOfSplit(slice(str, 0, selectionIndex))
      triggerIdx == indexOf(lastSpan, trigger)
      mentionSpan == IF triggerIdx = -1 THEN lastSpan
                     ELSE slice(lastSpan, triggerIdx, Len(lastSpan))
      searchString == slice(mentionSpan, 1, Len(mentionSpan))
  IN  [searchString |-> searchString,
       isTriggered |-> startsWith(mentionSpan, trigger),
       isValidSearchString |->
         ~startsWith(searchString, trigger) /\ ~startsWith(searchString, delimiter)]

\* `@{userId}`
asMentionedMessageTemplate(user) == <<trigger, "{", user, "}">>

\* Array.prototype.sort((a, b) => b.range.start - a.range.start): stable
RECURSIVE InsertByStartDesc(_, _)
InsertByStartDesc(list, m) ==
  IF list = <<>> THEN <<m>>
  ELSE IF Head(list).range.start >= m.range.start
         THEN <<Head(list)>> \o InsertByStartDesc(Tail(list), m)
         ELSE <<m>> \o list

RECURSIVE SortByStartDesc(_)
SortByStartDesc(list) ==
  IF list = <<>> THEN <<>>
  ELSE InsertByStartDesc(SortByStartDesc(SubSeq(list, 1, Len(list) - 1)), list[Len(list)])

\* the reduce of textToMentionedMessageTemplate over the sorted mentions
RECURSIVE TemplateReduce(_, _, _)
TemplateReduce(leftText, strings, sorted) ==
  IF sorted = <<>> THEN leftText \o strings
  ELSE LET curr == Head(sorted)
           leftSpan == slice(leftText, 0, curr.range.start)
           templateSpan == asMentionedMessageTemplate(curr.user)
           rightSpan == slice(leftText, curr.range.end, Len(leftText))
       IN  TemplateReduce(leftSpan, templateSpan \o rightSpan \o strings, Tail(sorted))

textToMentionedMessageTemplate(mentionEnabled, str, users) ==
  IF ~mentionEnabled THEN str
  ELSE TemplateReduce(str, <<>>, SortByStartDesc(users))

\* mutant: a mention that starts at the selection index is not moved
reconcileRangeInMentionedUsers_Behind(offset, selectionIndex, users) ==
  [i \in DOMAIN users |->
     IF selectionIndex < users[i].range.start
       THEN [users[i] EXCEPT !.range = [start |-> users[i].range.start + offset,
                                       end |-> users[i].range.end + offset]]
       ELSE users[i]]

reconcileRangeInMentionedUsers(offset, selectionIndex, users) ==
  [i \in DOMAIN users |->
     IF selectionIndex <= users[i].range.start
       THEN [users[i] EXCEPT !.range = [start |-> users[i].range.start + offset,
                                       end |-> users[i].range.end + offset]]
       ELSE users[i]]

\* the filter callback's running lastSelection and removedOffset
RECURSIVE RemovedFold(_, _, _, _)
RemovedFold(selection, users, lastSelection, removedOffset) ==
  IF users = <<>> THEN [lastSelection |-> lastSelection, removedOffset |-> removedOffset]
  ELSE LET it == Head(users)
           shouldRemove == intersection(selection, it.range, "lessMore")
       IN  IF shouldRemove
             THEN RemovedFold(selection, Tail(users), Max(lastSelection, it.range.end),
                              removedOffset - (it.range.end - it.range.start))
             ELSE RemovedFold(selection, Tail(users), lastSelection, removedOffset)

\* mutant: lastSelection is the end of the mention removed last
removeMentionedUsersInSelection_LastEnd(selection, users) ==
  LET gone == SelectSeq(users, LAMBDA it : intersection(selection, it.range, "lessMore"))
  IN  [filtered |-> SelectSeq(users, LAMBDA it : ~intersection(selection, it.range, "lessMore")),
       lastSelection |-> IF gone = <<>> THEN 0 ELSE gone[Len(gone)].range.end,
       removedOffset |-> RemovedFold(selection, users, 0, 0).removedOffset]

removeMentionedUsersInSelection(selection, users) ==
  LET fold == RemovedFold(selection, users, 0, 0)
  IN  [filtered |-> SelectSeq(users, LAMBDA it : ~intersection(selection, it.range, "lessMore")),
       lastSelection |-> fold.lastSelection,
       removedOffset |-> fold.removedOffset]

\* the body is a stub: whatever the template, nothing is reconstructed
templateToTextAndMentionedUsers(template, users) ==
  [mentionedText |-> <<>>, mentionedUsers |-> <<>>]

\* ------------------------------------------------------ the mention input
RECURSIVE TextsOf(_)
TextsOf(n) ==
  IF n = 0 THEN {<<>>} ELSE {Append(t, c) : t \in TextsOf(n - 1), c \in Chars}

Texts == UNION {TextsOf(n) : n \in 0..MaxText}

\* the ranges of mentions in a text of n characters: end exclusive, not empty
RangesIn(n) == {[start |-> a, end |-> b] : a \in 0..n, b \in 0..n} \ {r \in [start : 0..n, end : 0..n] : r.start >= r.end}

Overlap(r, q) == r.start < q.end /\ q.start < r.end

NonOverlapping(users) ==
  \A i, j \in DOMAIN users : i # j => ~Overlap(users[i].range, users[j].range)

\* the mention lists a text of n characters can carry at the start
MentionLists(n) ==
  LET M == [user : Users, range : RangesIn(n)]
  IN  {users \in UNION {[1..k -> M] : k \in 0..MaxMentions} : NonOverlapping(users)}

Selections(n) == {[start |-> a, end |-> b] : a \in 0..n, b \in 0..n} \ {r \in [start : 0..n, end : 0..n] : r.start > r.end}

Inserted == {[i \in 1..k |-> "a"] : k \in 0..MaxInsert}

InitMention ==
  /\ HookInit /\ userId = FALSE
  /\ text \in Texts
  /\ mentionedUsers \in MentionLists(Len(text))
  /\ editing = <<>>
  /\ result = [op |-> "none"]

\* a call is made when the result of the last one has been taken
Callable == editing = <<>> /\ result.op = "none"

SearchStep(selectionIndex) ==
  /\ Callable
  /\ result' = [op |-> "getSearchString", selectionIndex |-> selectionIndex,
                out |-> getSearchString(text, selectionIndex)]
  /\ UNCHANGED <<text, mentionedUsers, editing>>
  /\ UNCHANGED <<hookVars, collVars, storeVars, opVars, sendVars>>

ReconcileStep(offset, selectionIndex) ==
  /\ Callable
  /\ result' = [op |-> "reconcileRangeInMentionedUsers", offset |-> offset,
                selectionIndex |-> selectionIndex,
                out |-> reconcileRangeInMentionedUsers(offset, selectionIndex, mentionedUsers)]
  /\ UNCHANGED <<text, mentionedUsers, editing>>
  /\ UNCHANGED <<hookVars, collVars, storeVars, opVars, sendVars>>

RemoveStep(selection) ==
  /\ Callable
  /\ result' = [op |-> "removeMentionedUsersInSelection", selection |-> selection,
                out |-> removeMentionedUsersInSelection(selection, mentionedUsers)]
  /\ UNCHANGED <<text, mentionedUsers, editing>>
  /\ UNCHANGED <<hookVars, collVars, storeVars, opVars, sendVars>>

\* mentionedUsers.sort(...) sorts the caller's array in place
SerializeStep(mentionEnabled) ==
  /\ Callable
  /\ result' = [op |-> "textToMentionedMessageTemplate", mentionEnabled |-> mentionEnabled,
                given |-> mentionedUsers,
                out |-> textToMentionedMessageTemplate(mentionEnabled, text, mentionedUsers)]
  /\ mentionedUsers' = IF mentionEnabled THEN SortByStartDesc(mentionedUsers) ELSE mentionedUsers
  /\ UNCHANGED <<text, editing>>
  /\ UNCHANGED <<hookVars, collVars, storeVars, opVars, sendVars>>

\* the template just produced is handed to the parser
ParseStep ==
  /\ editing = <<>>
  /\ result.op = "textToMentionedMessageTemplate" /\ result.mentionEnabled
  /\ result' = [op |-> "templateToTextAndMentionedUsers", template |-> result.out,
                given |-> result.given,
                out |-> templateToTextAndMentionedUsers(result.out, Users)]
  /\ UNCHANGED <<text, mentionedUsers, editing>>
  /\ UNCHANGED <<hookVars, collVars, storeVars, opVars, sendVars>>

\* the caller takes the result
ReturnStep ==
  /\ result.op # "none"
  /\ result' = [op |-> "none"]
  /\ UNCHANGED <<text, mentionedUsers, editing>>
  /\ UNCHANGED <<hookVars, collVars, storeVars, opVars, sendVars>>

\* an edit replaces the selected characters by the inserted ones; its first
\* half removes the mentions in the selection
EditRemove(selection, inserted) ==
  /\ Callable
  /\ selection.end <= Len(text)
  /\ Len(text) - (selection.end - selection.start) + Len(inserted) <= MaxText
  /\ text' = slice(text, 0, selection.start) \o inserted \o slice(text, selection.end, Len(text))
  /\ mentionedUsers' = removeMentionedUsersInSelection(selection, mentionedUsers).filtered
  /\ editing' = <<[selectionIndex |-> selection.start,
                   offset |-> Len(inserted) - (selection.end - selection.start)]>>
  /\ UNCHANGED result
  /\ UNCHANGED <<hookVars, collVars, storeVars, opVars, sendVars>>

\* its second half shifts the mentions behind the edit by the change of length
EditShift ==
  /\ editing # <<>>
  /\ mentionedUsers' =
       reconcileRangeInMentionedUsers(editing[1].offset, editing[1].selectionIndex, mentionedUsers)
  /\ editing' = <<>>
  /\ UNCHANGED <<text, result>>
  /\ UNCHANGED <<hookVars, collVars, storeVars, opVars, sendVars>>

NextMention ==
  \/ \E selectionIndex \in 0..MaxText : SearchStep(selectionIndex)
  \/ \E offset \in (-MaxOffset)..MaxOffset, selectionIndex \in 0..MaxText :
       ReconcileStep(offset, selectionIndex)
  \/ \E selection \in Selections(MaxText) : RemoveStep(selection)
  \/ \E mentionEnabled \in BOOLEAN : SerializeStep(mentionEnabled)
  \/ ParseStep
  \/ ReturnStep
  \/ \E selection \in Selections(MaxText), inserted \in Inserted : EditRemove(selection, inserted)
  \/ EditShift

\* the calls a text input makes on its MentionManager
SpecMention == InitMention /\ [][NextMention]_vars

Next ==
  \/ RunEffect
  \/ ResumeEffect
  \/ SetUserId
  \/ Unmount
  \/ Refresh
  \/ ResumeRefresh
  \/ \E c \in Colls : onCacheResult(c, TRUE, <<>>) \/ \E snapshot \in Pages : onCacheResult(c, FALSE, snapshot)
  \/ \E c \in Colls : onApiResult(c, TRUE, <<>>) \/ \E snapshot \in Pages : onApiResult(c, FALSE, snapshot)
  \/ \E ms \in Events : onMessagesAdded(ms)
  \/ \E ms \in Events : onMessagesUpdated(ms)
  \/ \E ms \in DeleteEvents : onMessagesDeleted(ms)
  \/ onChannelDeleted
  \/ \E isGroupChannel \in BOOLEAN : onChannelUpdated(isGroupChannel)
  \/ onHugeGapDetected
  \/ \E hasPrevious \in BOOLEAN : prev(hasPrevious)
  \/ prevSettled(TRUE, <<>>) \/ \E list \in Pages : prevSettled(FALSE, list)
  \/ \E hasNext \in BOOLEAN : next(hasNext)
  \/ nextSettled(TRUE, <<>>) \/ \E fetchedList \in Pages : nextSettled(FALSE, fetchedList)
  \/ \E r \in ReqIds : sendUserMessage(r)
  \/ \E r \in ReqIds : \E error \in BOOLEAN, t \in AckTimes(r) : sendCallback(r, error, t)
  \/ \E r \in ReqIds : resendMessage(r)
  \/ \E r \in ReqIds : \E error \in BOOLEAN, t \in AckTimes(r) : resendSettled(r, error, t)

\* every operation of the hook
Spec == Init /\ [][Next]_vars

\* the synchronization of one mounted session: every operation that reads or
\* writes the store, for a viewer who stays signed in (or out) on one channel
NextSync ==
  \/ RunEffect
  \/ ResumeEffect
  \/ Refresh
  \/ ResumeRefresh
  \/ \E c \in Colls : onCacheResult(c, TRUE, <<>>) \/ \E snapshot \in Pages : onCacheResult(c, FALSE, snapshot)
  \/ \E c \in Colls : onApiResult(c, TRUE, <<>>) \/ \E snapshot \in Pages : onApiResult(c, FALSE, snapshot)
  \/ \E ms \in Events : onMessagesAdded(ms)
  \/ \E ms \in Events : onMessagesUpdated(ms)
  \/ \E ms \in DeleteEvents : onMessagesDeleted(ms)
  \/ onHugeGapDetected
  \/ \E hasPrevious \in BOOLEAN : prev(hasPrevious)
  \/ prevSettled(TRUE, <<>>) \/ \E list \in Pages : prevSettled(FALSE, list)
  \/ \E hasNext \in BOOLEAN : next(hasNext)
  \/ nextSettled(TRUE, <<>>) \/ \E fetchedList \in Pages : nextSettled(FALSE, fetchedList)
  \/ \E r \in ReqIds : sendUserMessage(r)
  \/ \E r \in ReqIds : \E error \in BOOLEAN, t \in AckTimes(r) : sendCallback(r, error, t)
  \/ \E r \in ReqIds : resendMessage(r)
  \/ \E r \in ReqIds : \E error \in BOOLEAN, t \in AckTimes(r) : resendSettled(r, error, t)

SpecSync == Init /\ [][NextSync]_vars

\* the life cycle of the collection: mount, prop and channel changes, refresh,
\* gap, pagination and unmount, in a session in which nothing is sent and no
\* message event arrives
NextLife ==
  \/ RunEffect
  \/ ResumeEffect
  \/ SetUserId
  \/ Unmount
  \/ Refresh
  \/ ResumeRefresh
  \/ \E c \in Colls : onCacheResult(c, TRUE, <<>>) \/ \E snapshot \in Pages : onCacheResult(c, FALSE, snapshot)
  \/ \E c \in Colls : onApiResult(c, TRUE, <<>>) \/ \E snapshot \in Pages : onApiResult(c, FALSE, snapshot)
  \/ onChannelDeleted
  \/ \E isGroupChannel \in BOOLEAN : onChannelUpdated(isGroupChannel)
  \/ onHugeGapDetected
  \/ \E hasPrevious \in BOOLEAN : prev(hasPrevious)
  \/ prevSettled(TRUE, <<>>) \/ \E list \in Pages : prevSettled(FALSE, list)
  \/ \E hasNext \in BOOLEAN : next(hasNext)
  \/ nextSettled(TRUE, <<>>) \/ \E fetchedList \in Pages : nextSettled(FALSE, fetchedList)

SpecLife == Init /\ [][NextLife]_vars

\* the order of the store in one session of a signed-in viewer: snapshots,
\* pagination, arrivals and sends, with acknowledgments that tie with a message
NextOrder ==
  \/ RunEffect
  \/ ResumeEffect
  \/ \E c \in Colls : onCacheResult(c, TRUE, <<>>) \/ \E snapshot \in Pages : onCacheResult(c, FALSE, snapshot)
  \/ \E c \in Colls : onApiResult(c, TRUE, <<>>) \/ \E snapshot \in Pages : onApiResult(c, FALSE, snapshot)
  \/ \E ms \in Events : onMessagesAdded(ms)
  \/ \E hasPrevious \in BOOLEAN : prev(hasPrevious)
  \/ prevSettled(TRUE, <<>>) \/ \E list \in Pages : prevSettled(FALSE, list)
  \/ \E hasNext \in BOOLEAN : next(hasNext)
  \/ nextSettled(TRUE, <<>>) \/ \E fetchedList \in Pages : nextSettled(FALSE, fetchedList)
  \/ \E r \in ReqIds : sendUserMessage(r)
  \/ \E r \in ReqIds : \E error \in BOOLEAN, t \in TiedAckTimes(r) : sendCallback(r, error, t)
  \/ \E r \in ReqIds : resendMessage(r)
  \/ \E r \in ReqIds : \E error \in BOOLEAN, t \in TiedAckTimes(r) : resendSettled(r, error, t)

SpecOrder == Init /\ [][NextOrder]_vars

\* init() awaits nothing: the continuation behind `await init(userId)` is a
\* microtask that is already queued, so it does run
SpecLifeFair == SpecLife /\ WF_vars(ResumeEffect) /\ WF_vars(ResumeRefresh)

\* ---------------------------------------------------------------- claims
\* the identity of a stored message: its confirmed id, or its pending id
Identity(m) == IF m.messageId # 0 THEN <<"messageId", m.messageId>> ELSE <<"reqId", m.reqId>>

LiveColls == (1..created) \ disposed

\* position of the entry of request r in a list, 0 when there is none
IndexOfReq(list, r) ==
  IF \E i \in DOMAIN list : list[i].reqId = r
    THEN CHOOSE i \in DOMAIN list : list[i].reqId = r
    ELSE 0

InTimeOrder(list) == \A i, j \in DOMAIN list : i < j => list[i].createdAt <= list[j].createdAt

\* C1: no message identity is present in both `messages` (current) and
\* `nextMessages` (pendingNext) at the same time.
C1_DisjointPartitions ==
  \A i \in DOMAIN messages, j \in DOMAIN nextMessages :
    Identity(messages[i]) # Identity(nextMessages[j])

\* C2: `messages` never holds two entries with the same confirmed id nor two
\* with the same pending id; an acknowledged pending entry is replaced, so the
\* pending and the confirmed entry of one send are never both stored.
C2_UniqueInCurrent ==
  \A i, j \in DOMAIN messages :
    i # j => /\ ~(messages[i].messageId # 0 /\ messages[i].messageId = messages[j].messageId)
             /\ ~(messages[i].reqId # 0 /\ messages[i].reqId = messages[j].reqId)

\* C2 witness: the send was acknowledged and its confirmed entry is stored
\* among other messages.
C2_Witness ==
  /\ sdk[1].status = "succeeded"
  /\ \E i \in DOMAIN messages : messages[i].reqId = 1 /\ messages[i].messageId # 0
  /\ Len(messages) >= 3

\* a callback or continuation of a collection that is no longer the held one
StaleStep ==
  \/ prevOp # 0 /\ prevOp' = 0 /\ prevOp # collectionRef
  \/ nextOp # <<>> /\ nextOp' = <<>> /\ nextOp[1].coll # collectionRef
  \/ \E c \in Colls : c # collectionRef /\ phase[c] \in {"cache", "api"} /\ phase'[c] # phase[c]

\* C3: a callback of a superseded collection (snapshot callback, continuation
\* of loadPrevious / loadNext) never changes `messages` or `nextMessages`.
C3_StaleCallbackInert ==
  [][StaleStep => UNCHANGED <<messages, nextMessages>>]_vars

\* C4: at most one collection is live; every collection but the held one has
\* been disposed (so a new one is created only after the old one is disposed),
\* and after the unmount none is live.
C4_OneLiveCollection ==
  /\ Cardinality(LiveColls) <= 1
  /\ LiveColls \subseteq {collectionRef}
  /\ ~mounted => LiveColls = {}

\* C4 witness: a collection was replaced and the last one disposed by the unmount.
C4_Witness ==
  /\ ~mounted
  /\ created = MaxColl
  /\ disposed = Colls

SnapshotOk(c, snapshot) == onCacheResult(c, FALSE, snapshot) \/ onApiResult(c, FALSE, snapshot)
SnapshotErr(c) == onCacheResult(c, TRUE, <<>>) \/ onApiResult(c, TRUE, <<>>)

\* C5: a successful snapshot callback leaves in `messages` exactly the
\* snapshot's messages plus the pending and failed ones (a snapshot in time
\* order with nothing unsent is stored as it is); a callback with an error
\* leaves `messages` unchanged.
C5_SnapshotReplaces ==
  [][\A c \in {x \in Colls : phase'[x] # phase[x]} :
       /\ \A snapshot \in Pages :
            SnapshotOk(c, snapshot) =>
              /\ Range(messages') =
                   Range(snapshot) \cup Range(pendingMessages) \cup Range(failedMessages)
              /\ Len(messages') =
                   Len(snapshot) + Len(pendingMessages) + Len(failedMessages)
              /\ (InTimeOrder(snapshot) /\ pendingMessages = <<>> /\ failedMessages = <<>>)
                   => messages' = snapshot
       /\ SnapshotErr(c) => messages' = messages]_vars

\* C5 witness: after the server snapshot the store holds the snapshot's two
\* messages and the viewer's failed message (only a snapshot callback stores it).
C5_Witness ==
  /\ collectionRef # 0 /\ phase[collectionRef] = "done"
  /\ messages = <<OtherMessage(1, 0), FailedMessage(1), OtherMessage(2, 0)>>

NextStep ==
  \/ \E hasNext \in BOOLEAN : next(hasNext)
  \/ nextSettled(TRUE, <<>>)
  \/ \E fetchedList \in Pages : nextSettled(FALSE, fetchedList)

\* C6: when next() clears `nextMessages`, every message that was in it is in
\* `messages` afterwards.
C6_NextDrainsAll ==
  [][(NextStep /\ nextMessages # <<>> /\ nextMessages' = <<>>)
       => Range(nextMessages) \subseteq Range(messages')]_vars

C8_FailedSendMarkedFailed ==
  [][\A r \in ReqIds :
       /\ sendUserMessage(r) => PendingMessage(r) \in Range(messages')
       /\ (\E t \in AckTimes(r) : sendCallback(r, TRUE, t)) =>
            /\ onSent'[r] = "error"
            /\ IndexOfReq(messages', r) # 0
            /\ messages'[IndexOfReq(messages', r)].sendingStatus = "failed"]_vars

IsNew(list, m) == \A i \in DOMAIN list : Identity(list[i]) # Identity(m)

KeptIndexes(list, msgIds, reqIds) == {i \in DOMAIN list : ~Named(list[i], msgIds, reqIds)}

IsRest(rest, list, msgIds, reqIds) ==
  LET kept == KeptIndexes(list, msgIds, reqIds)
  IN  /\ Len(rest) = Cardinality(kept)
      /\ \A i \in kept : rest[Cardinality({j \in kept : j <= i})] = list[i]

\* C10: after a messages-deleted event no message named by it (by confirmed
\* or by pending id) is left in either partition, all others stay as they
\* were, and a partition that held none of them is unchanged.
C10_DeletedFromBoth ==
  [][\A ms \in {x \in DeleteEvents : Len(messages') <= Len(messages)} :
       onMessagesDeleted(ms) =>
         LET msgIds == {m.messageId : m \in Range(ms)} \ {0}
             reqIds == {m.reqId : m \in Range(ms)} \ {0}
             gone(list) == \A i \in DOMAIN list :
                             /\ list[i].messageId \notin msgIds
                             /\ list[i].reqId \notin reqIds
         IN  /\ gone(messages') /\ gone(nextMessages')
             /\ IsRest(messages', messages, msgIds, reqIds)
             /\ IsRest(nextMessages', nextMessages, msgIds, reqIds)
             /\ gone(messages) => messages' = messages]_vars

\* C10 witness: the viewer's failed message was deleted from the store while
\* another message waits in `nextMessages`.
C10_Witness ==
  /\ sdk[1].status = "removed"
  /\ IndexOfReq(messages, 1) = 0
  /\ messages # <<>>
  /\ nextMessages # <<>>


\* C11: a gap-detected event leaves the synchronizer as a direct start does:
\* the held collection is disposed, a new one is created for the channel that
\* is active now and is initializing, and `nextMessages` is empty.
C11_GapRestartsOnActiveChannel ==
  [][onHugeGapDetected =>
       /\ collectionRef \in disposed'
       /\ collectionRef' = created + 1
       /\ collectionRef' \notin disposed'
       /\ phase'[collectionRef'] = "cache"
       /\ channelOf'[collectionRef'] = activeChannel
       /\ nextMessages' = <<>>]_vars

\* C12: a start without a userId (by the effect or by refresh) is a no-op: it
\* leaves the held collection, its live or disposed status, `messages` and
\* `nextMessages` as they were.
C12_AbsentViewerNoOp ==
  [][(~userId /\ (RunEffect \/ Refresh)) =>
       UNCHANGED <<collectionRef, created, disposed, phase, messages, nextMessages>>]_vars

\* C13: when the server snapshot of the start made by the mount effect fails
\* (the effect's collection is the only one created so far), `loading`, set
\* when that start began, is still true afterwards.
C13_FailedSnapshotStallsLoading ==
  [][(userId /\ effectDeps # <<>> /\ created = 1 /\ onApiResult(1, TRUE, <<>>))
       => loading']_vars

\* the entries of `list` that update no entry of `stored`
Fresh(stored, list) ==
  {m \in Range(list) : \A i \in DOMAIN stored : ~SameMessage(stored[i], m)}

\* C14: prev() fetches only with a collection at hand and changes neither
\* partition by itself; a failed fetch changes neither; a fetched page is
\* upserted into `messages` (every message of the page is stored, every entry
\* the page does not update is kept, nothing else is added) and
\* `nextMessages` is left unchanged.
C14_LoadPreviousUpsertsPage ==
  [][/\ (prevOp = 0 /\ prevOp' # 0) =>
          (collectionRef # 0 /\ UNCHANGED <<messages, nextMessages>>)
     /\ prevSettled(TRUE, <<>>) => UNCHANGED <<messages, nextMessages>>
     /\ \A list \in {x \in Pages : prevOp # 0 /\ prevOp' = 0} :
          prevSettled(FALSE, list) =>
            /\ nextMessages' = nextMessages
            /\ Range(list) \subseteq Range(messages')
            /\ \A i \in DOMAIN messages :
                 (\A k \in DOMAIN list : ~SameMessage(messages[i], list[k]))
                   => messages[i] \in Range(messages')
            /\ Range(messages') \subseteq Range(list) \cup Range(messages)
            /\ Len(messages') = Len(messages) + Cardinality(Fresh(messages, list))]_vars

\* C14 witness: loadPrevious() of the held collection is awaited while both
\* partitions hold messages.
C14_Witness ==
  /\ prevOp # 0 /\ prevOp = collectionRef
  /\ messages # <<>>
  /\ nextMessages # <<>>

\* C15: after the unmount no step changes `messages` or `nextMessages`, and
\* no loadPrevious() or loadNext() is issued.
C15_NoMutationAfterTeardown ==
  [][~mounted =>
       /\ UNCHANGED <<messages, nextMessages>>
       /\ prevOp' \in {prevOp, 0}
       /\ nextOp' \in {nextOp, <<>>}]_vars

\* C16: reconcileRangeInMentionedUsers(k, p, mentions) returns as many
\* mentions, in the same order and with the same users; a mention with
\* start >= p has start and end moved by k, one with start < p is unchanged.
C16_ReconcileShifts ==
  result.op = "reconcileRangeInMentionedUsers" =>
    LET k == result.offset
        p == result.selectionIndex
        out == result.out
    IN  /\ Len(out) = Len(mentionedUsers)
        /\ \A i \in DOMAIN mentionedUsers :
             /\ out[i].user = mentionedUsers[i].user
             /\ mentionedUsers[i].range.start >= p =>
                  /\ out[i].range.start = mentionedUsers[i].range.start + k
                  /\ out[i].range.end = mentionedUsers[i].range.end + k
             /\ mentionedUsers[i].range.start < p => out[i] = mentionedUsers[i]

\* C16 witness: a deletion offset at the start of the second mention moved it
\* and left the first one alone.
C16_Witness ==
  /\ result.op = "reconcileRangeInMentionedUsers"
  /\ result.offset < 0
  /\ Len(mentionedUsers) = 2
  /\ mentionedUsers[1].range.start < result.selectionIndex
  /\ mentionedUsers[2].range.start = result.selectionIndex
  /\ result.out[1] = mentionedUsers[1]
  /\ result.out[2].range.start = mentionedUsers[2].range.start + result.offset

\* C17: removeMentionedUsersInSelection([a,b], mentions) removes exactly the
\* mentions with start <= b and end >= a.
C17_RemovesClosedIntersection ==
  result.op = "removeMentionedUsersInSelection" =>
    \A i \in DOMAIN mentionedUsers :
      LET it == mentionedUsers[i]
      IN  (it.range.start <= result.selection.end /\ it.range.end >= result.selection.start)
            <=> (it \notin Range(result.out.filtered))

\* C18: the mention ranges never overlap and each has start <= end, whatever
\* edits (removal in the selection, then the shift) were made.
C18_MentionsNeverOverlap ==
  /\ NonOverlapping(mentionedUsers)
  /\ \A i \in DOMAIN mentionedUsers : mentionedUsers[i].range.start <= mentionedUsers[i].range.end

\* C19: parsing the template made of a text and its mentions gives back the
\* same set of (user, range) mentions.
C19_TemplateRoundTrip ==
  result.op = "templateToTextAndMentionedUsers" =>
    Range(result.out.mentionedUsers) = Range(result.given)

\* the characters between the last delimiter before the cursor and the cursor
SpanBeforeCursor(str, cursor) ==
  LET n == Min(cursor, Len(str))
      ds == {i \in 1..n : str[i] = delimiter}
      from == IF ds = {} THEN 0 ELSE CHOOSE i \in ds : \A j \in ds : j <= i
  IN  SubSeq(str, from + 1, n)

\* C20: getSearchString reports isTriggered only when the span between the
\* last delimiter before the cursor and the cursor starts with the trigger,
\* and reports a search string that begins with the trigger or the delimiter
\* as not valid.
C20_TriggeredOnlyAtSpanStart ==
  result.op = "getSearchString" =>
    /\ result.out.isTriggered =>
         startsWith(SpanBeforeCursor(text, result.selectionIndex), trigger)
    /\ (startsWith(result.out.searchString, trigger)
          \/ startsWith(result.out.searchString, delimiter))
         => ~result.out.isValidSearchString

\* C21: a channel-updated event publishes ChannelUpdated with the channel it
\* carries and, when that is a group channel, makes it the activeChannel,
\* whatever channel was held; the activeChannel is the channel of the last
\* such event; a channel-deleted event publishes ChannelDeleted and changes
\* neither `messages`, `nextMessages` nor the activeChannel.
C21_ChannelEvents ==
  /\ [][/\ \A isGroupChannel \in BOOLEAN :
             onChannelUpdated(isGroupChannel) =>
               /\ published' = <<"ChannelUpdated", isGroupChannel, activeChannel + 1>>
               /\ isGroupChannel => activeChannel' = activeChannel + 1
        /\ onChannelDeleted =>
             /\ published' = <<"ChannelDeleted">>
             /\ UNCHANGED <<messages, nextMessages, activeChannel>>]_vars
  /\ [](published # <<>> /\ published[1] = "ChannelUpdated" /\ published[2]
          => activeChannel = published[3])

\* C21 witness: the second group channel delivered is the one held and published.
C21_Witness ==
  /\ activeChannel = 2
  /\ published = <<"ChannelUpdated", TRUE, 2>>

\* C22: refresh() raises `refreshing` and leaves `loading` alone, the mount
\* effect raises `loading` and leaves `refreshing` alone, and each flag
\* returns to false.
C22_RefreshFlags ==
  /\ [][/\ Refresh => refreshing'
        /\ (Refresh \/ ResumeRefresh) => UNCHANGED loading
        /\ RunEffect => loading'
        /\ (RunEffect \/ ResumeEffect) => UNCHANGED refreshing]_vars
  /\ (refreshing ~> ~refreshing)
  /\ (loading ~> ~loading)

\* C22 witness: a refresh has replaced the collection of the mount and is
\* about to resume, with `loading` down.
C22_Witness ==
  /\ pc = "refresh"
  /\ refreshing /\ ~loading
  /\ created = 2 /\ collectionRef = 2

\* the effect runs again only because the activeChannel was replaced
ChannelRerun ==
  /\ effectDeps # <<>>
  /\ effectDeps[1] # activeChannel /\ effectDeps[2] = userId
  /\ RunEffect

\* C24: handling a channel-updated event (the handler, and the effect that
\* the replaced activeChannel sets off) neither disposes nor creates a
\* collection, does not set `loading`, and leaves `messages` and
\* `nextMessages` unchanged.
C24_ChannelUpdateKeepsSync ==
  [][((\E isGroupChannel \in BOOLEAN : onChannelUpdated(isGroupChannel)) \/ ChannelRerun)
       => UNCHANGED <<collectionRef, created, disposed, phase, loading,
                      messages, nextMessages>>]_vars


\* the sum of the lengths of the mentions of `users` at the indexes in S
RECURSIVE LengthSum(_, _)
LengthSum(users, S) ==
  IF S = {} THEN 0
  ELSE LET i == CHOOSE x \in S : TRUE
       IN  (users[i].range.end - users[i].range.start) + LengthSum(users, S \ {i})

\* C25: removeMentionedUsersInSelection returns the kept mentions in their
\* order and with their ranges (kept and removed ones partition the input),
\* lastSelection = the largest end of a removed mention (0 when none is
\* removed) and removedOffset = minus the sum of the removed lengths.
C25_RemoveOutputs ==
  result.op = "removeMentionedUsersInSelection" =>
    LET kept == result.out.filtered
        keptAt == {i \in DOMAIN mentionedUsers : mentionedUsers[i] \in Range(kept)}
        removedAt == DOMAIN mentionedUsers \ keptAt
        ends == {mentionedUsers[i].range.end : i \in removedAt}
    IN  /\ Len(kept) = Cardinality(keptAt)
        /\ \A i \in keptAt : kept[Cardinality({j \in keptAt : j <= i})] = mentionedUsers[i]
        /\ result.out.lastSelection =
             (IF ends = {} THEN 0 ELSE CHOOSE e \in ends : \A f \in ends : f <= e)
        /\ result.out.removedOffset = 0 - LengthSum(mentionedUsers, removedAt)

\* C25 witness: two mentions were removed, the first of them ending last.
C25_Witness ==
  /\ result.op = "removeMentionedUsersInSelection"
  /\ Len(mentionedUsers) = 2
  /\ result.out.filtered = <<>>
  /\ mentionedUsers[1].range.end > mentionedUsers[2].range.end
  /\ result.out.lastSelection = mentionedUsers[1].range.end
  /\ result.out.removedOffset < -2


\* the entries of `messages` that the entry e of messages' has replaced
Replaced(e) == {k \in DOMAIN messages : SameMessage(messages[k], e)}

First(S) == CHOOSE k \in S : \A l \in S : k <= l

\* position of m in a list, 0 when it is not there
IndexIn(list, m) ==
  IF \E i \in DOMAIN list : list[i] = m THEN CHOOSE i \in DOMAIN list : list[i] = m ELSE 0

\* a step that is no snapshot callback keeps entries of equal creation time in
\* the order they were stored in, a new entry behind the stored ones
UpsertKeepsTies ==
  (\A c \in Colls : phase'[c] = phase[c]) =>
    \A i, j \in DOMAIN messages' :
      (i < j /\ messages'[i].createdAt = messages'[j].createdAt) =>
        /\ Replaced(messages'[j]) # {} => Replaced(messages'[i]) # {}
        /\ (Replaced(messages'[i]) # {} /\ Replaced(messages'[j]) # {})
             => First(Replaced(messages'[i])) < First(Replaced(messages'[j]))

\* a snapshot callback stores messages of equal creation time in the order
\* of the snapshot
SnapshotKeepsTies ==
  \A c \in {x \in Colls : phase'[x] # phase[x]} :
    \A snapshot \in Pages :
      SnapshotOk(c, snapshot) =>
        \A i, j \in DOMAIN messages' :
          (/\ i < j /\ messages'[i].createdAt = messages'[j].createdAt
           /\ messages'[i] \in Range(snapshot) /\ messages'[j] \in Range(snapshot))
            => IndexIn(snapshot, messages'[i]) < IndexIn(snapshot, messages'[j])

====
